---- MODULE Spec2Model ----
(***************************************************************************)
(* Model of the technical-indicator engine of the Polygon.io Excel add-in  *)
(* (src/polygon-ai/src/functions/functions.js).  The file holds two        *)
(* revisions of every function: revision 1 is lines 1-2979, revision 2 is  *)
(* lines 2980-5010.                                                        *)
(*                                                                         *)
(* Numbers.  A JavaScript value that reaches the arithmetic is modelled as *)
(* a pair <<n, d>>:                                                        *)
(*   d > 0   the finite number n/d, in lowest terms;                       *)
(*   d = 0   <<1,0>> = Infinity, <<-1,0>> = -Infinity, <<0,0>> = NaN;      *)
(*   d < 0   a value whose typeof is not 'number': <<0,-1>> = null,        *)
(*           <<1,-1>> = undefined.                                         *)
(* Finite arithmetic is exact (rational); the rounding of IEEE-754 doubles *)
(* is not modelled.                                                        *)
(***************************************************************************)
EXTENDS Integers, Sequences, FiniteSets, TLC

VARIABLES
  prices,   \* the array of closes handed to calculateSMA/EMA/RSI/MACD
  bars,     \* data.results of a fetched aggregate response
  call,     \* the call made: function, revision and arguments
  out,      \* what the call returned or threw
  locals,   \* local variables of the call at its end (macdLine, the ATR seed)
  apiKey,   \* the module-level variable apiKey ("" while it is null)
  storedKey \* localStorage item "polygonApiKey" ("" while it is absent)

vars == <<prices, bars, call, out, locals, apiKey, storedKey>>

-----------------------------------------------------------------------------
(* Bounds of the model *)

MaxLen == 5
MaxPrice == 2
MaxPeriod == 3
MaxBars == 4

-----------------------------------------------------------------------------
(* JavaScript numbers *)

NaN == <<0, 0>>
PosInf == <<1, 0>>
NegInf == <<-1, 0>>
Null == <<0, -1>>
Undefined == <<1, -1>>

R(k) == <<k, 1>>

Abs(x) == IF x < 0 THEN -x ELSE x

Sign(x) == IF x < 0 THEN -1 ELSE IF x > 0 THEN 1 ELSE 0

RECURSIVE GCD(_, _)
GCD(a, b) == IF b = 0 THEN a ELSE GCD(b, a % b)

Norm(n, d) ==
  IF d = 0 THEN <<Sign(n), 0>>
  ELSE LET g == GCD(Abs(n), Abs(d))
           s == IF d < 0 THEN -1 ELSE 1
       IN  <<(s * n) \div g, (s * d) \div g>>

\* typeof x === 'number'
IsNumberType(x) == x[2] >= 0

isNaN(x) == x = NaN \/ x = Undefined

IsFinite(x) == x[2] > 0

\* ToNumber: null -> 0, undefined -> NaN
ToNumber(x) == IF x = Null THEN R(0) ELSE IF x = Undefined THEN NaN ELSE x

Neg(x) == LET a == ToNumber(x) IN <<-a[1], a[2]>>

Add(x, y) ==
  LET a == ToNumber(x)
      b == ToNumber(y)
  IN  IF a = NaN \/ b = NaN THEN NaN
      ELSE IF a[2] = 0 /\ b[2] = 0 THEN (IF a = b THEN a ELSE NaN)
      ELSE IF a[2] = 0 THEN a
      ELSE IF b[2] = 0 THEN b
      ELSE Norm(a[1] * b[2] + b[1] * a[2], a[2] * b[2])

Sub(x, y) == Add(x, Neg(y))

Mul(x, y) ==
  LET a == ToNumber(x)
      b == ToNumber(y)
  IN  IF a = NaN \/ b = NaN THEN NaN ELSE Norm(a[1] * b[1], a[2] * b[2])

Div(x, y) ==
  LET a == ToNumber(x)
      b == ToNumber(y)
  IN  IF a = NaN \/ b = NaN THEN NaN
      ELSE IF a[2] = 0 /\ b[2] = 0 THEN NaN
      ELSE Norm(a[1] * b[2] * (IF b[1] < 0 THEN -1 ELSE 1), a[2] * Abs(b[1]))

Lt(x, y) ==
  LET a == ToNumber(x)
      b == ToNumber(y)
  IN  /\ a # NaN
      /\ b # NaN
      /\ a # b
      /\ IF a[2] = 0 THEN a[1] < 0
         ELSE IF b[2] = 0 THEN b[1] > 0
         ELSE a[1] * b[2] < b[1] * a[2]

Le(x, y) ==
  LET a == ToNumber(x)
      b == ToNumber(y)
  IN  a # NaN /\ b # NaN /\ (a = b \/ Lt(a, b))

MathAbs(x) == LET a == ToNumber(x) IN <<Abs(a[1]), a[2]>>

Max2(x, y) ==
  LET a == ToNumber(x)
      b == ToNumber(y)
  IN  IF a = NaN \/ b = NaN THEN NaN ELSE IF Lt(a, b) THEN b ELSE a

MathMax3(x, y, z) == Max2(Max2(x, y), z)

Min(a, b) == IF a < b THEN a ELSE b

Max(a, b) == IF a < b THEN b ELSE a

-----------------------------------------------------------------------------
(* JavaScript arrays: 0-based views of TLA+ sequences *)

\* arr[i]; a read outside the array gives undefined
At(arr, i) == IF i >= 0 /\ i < Len(arr) THEN arr[i + 1] ELSE Undefined

\* arr.slice(from, to)
Slice(arr, from, to) ==
  LET n == Len(arr)
      f == IF from < 0 THEN Max(n + from, 0) ELSE Min(from, n)
      t == IF to < 0 THEN Max(n + to, 0) ELSE Min(to, n)
  IN  IF f >= t THEN <<>> ELSE SubSeq(arr, f + 1, t)

\* mutant of AfterSlice: splice, which removes the elements it returns
AfterSplice(arr, from, to) ==
  [k \in 1..(Len(arr) - Len(Slice(arr, from, to))) |->
     IF k <= from THEN arr[k] ELSE arr[k + Len(Slice(arr, from, to))]]

\* the receiver after arr.slice(from, to): slice copies and leaves arr as it was
AfterSlice(arr, from, to) == arr

\* the calls of the callback (a, b) => a + b from element k on, a the sum so
\* far; a sum that is NaN stays NaN whatever is added to it
RECURSIVE ReduceLoop(_, _, _)
ReduceLoop(arr, k, a) ==
  IF k > Len(arr) \/ a = NaN THEN a
  ELSE ReduceLoop(arr, k + 1, Add(a, arr[k]))

\* arr.reduce((a, b) => a + b, 0)
Reduce0(arr) == ReduceLoop(arr, 1, R(0))

-----------------------------------------------------------------------------
(* Outcomes of a call: a returned value or a thrown Error *)

Ok(v) == [err |-> "", v |-> v]

Err(m) == [err |-> m, v |-> <<>>]

IsOk(o) == o.err = ""

\* typeof price !== 'number' || isNaN(price)
InvalidPrice(p) == ~IsNumberType(p) \/ isNaN(p)

-----------------------------------------------------------------------------
(* calculateSMA *)

\* mutant of SMAWindowSum: the window starts one element late
RECURSIVE SMAWindowSumShort(_, _, _)
SMAWindowSumShort(p, i, j) ==
  IF j < 1 THEN R(0) ELSE Add(SMAWindowSumShort(p, i, j - 1), At(p, i - (j - 1)))

\* the inner loop: sum of prices[i - j], j = 0 .. period-1
RECURSIVE SMAWindowSum(_, _, _)
SMAWindowSum(p, i, j) ==
  IF j < 0 THEN R(0) ELSE Add(SMAWindowSum(p, i, j - 1), At(p, i - j))

\* mutant of calculateSMA: the period check of getTechnicalIndicator, which
\* rejects period = prices.length
calculateSMAStrict(p, period) ==
  IF Len(p) = 0 THEN Err("Invalid prices array")
  ELSE IF period <= 0 \/ period >= Len(p) THEN Err("Invalid period")
  ELSE IF \E i \in (period - 1)..(Len(p) - 1) :
             \E j \in 0..(period - 1) : InvalidPrice(At(p, i - j))
       THEN Err("Invalid price")
  ELSE Ok([k \in 1..(Len(p) - period + 1) |->
             Div(SMAWindowSum(p, period - 1 + (k - 1), period - 1), R(period))])

calculateSMA(p, period) ==
  IF Len(p) = 0 THEN Err("Invalid prices array")
  ELSE IF period <= 0 \/ period > Len(p) THEN Err("Invalid period")
  ELSE IF \E i \in (period - 1)..(Len(p) - 1) :
             \E j \in 0..(period - 1) : InvalidPrice(At(p, i - j))
       THEN Err("Invalid price")
  ELSE Ok([k \in 1..(Len(p) - period + 1) |->
             Div(SMAWindowSum(p, period - 1 + (k - 1), period - 1), R(period))])

-----------------------------------------------------------------------------
(* calculateEMA *)

\* the loop "for (let i = period; i < prices.length; i++)": result ends with
\* ema; it starts as [ema] and is never empty
RECURSIVE EMALoop(_, _, _, _)
EMALoop(p, i, multiplier, result) ==
  IF i >= Len(p) \/ Len(result) = 0 THEN result
  ELSE LET ema == result[Len(result)]
       IN  EMALoop(p, i + 1, multiplier,
                   Append(result, Add(Mul(Sub(At(p, i), ema), multiplier), ema)))

\* mutant of EMASeed: the recurrence is seeded with the first price
EMASeedFirstPrice(p, period) == At(p, 0)

\* let ema = prices.slice(0, period).reduce((a, b) => a + b, 0) / period
EMASeed(p, period) == Div(Reduce0(Slice(p, 0, period)), R(period))

calculateEMA(p, period) ==
  IF Len(p) = 0 THEN Err("Invalid prices array")
  ELSE IF period <= 0 \/ period > Len(p) THEN Err("Invalid period")
  ELSE IF \E i \in 0..(Len(p) - 1) : InvalidPrice(At(p, i)) THEN Err("Invalid price")
  ELSE Ok(EMALoop(p, period, Div(R(2), R(period + 1)), <<EMASeed(p, period)>>))

\* the caller's array after calculateEMA(prices, period): the function reads
\* prices.length and prices[i] and calls prices.slice(0, period), nothing else
EMAArrayAfter(p, period) ==
  IF IsOk(calculateEMA(p, period)) THEN AfterSlice(p, 0, period) ELSE p

-----------------------------------------------------------------------------
(* calculateRSI *)

\* gains.push(change > 0 ? change : 0), for i = 1 .. prices.length-1
Gains(p) ==
  [i \in 1..(Len(p) - 1) |->
     LET change == Sub(At(p, i), At(p, i - 1))
     IN  IF Lt(R(0), change) THEN change ELSE R(0)]

\* losses.push(change < 0 ? -change : 0)
Losses(p) ==
  [i \in 1..(Len(p) - 1) |->
     LET change == Sub(At(p, i), At(p, i - 1))
     IN  IF Lt(change, R(0)) THEN Neg(change) ELSE R(0)]

\* mutant of RSIValue: the avgLoss === 0 test is missing
RSIValueUnguarded(gains, losses, period, i) ==
  LET avgGain == Div(Reduce0(Slice(gains, i - period, i)), R(period))
      avgLoss == Div(Reduce0(Slice(losses, i - period, i)), R(period))
  IN  Sub(R(100), Div(R(100), Add(R(1), Div(avgGain, avgLoss))))

\* mutant of RSIValue: the window ends with the change of index i
RSIValueInclusive(gains, losses, period, i) ==
  LET avgGain == Div(Reduce0(Slice(gains, i - period + 1, i + 1)), R(period))
      avgLoss == Div(Reduce0(Slice(losses, i - period + 1, i + 1)), R(period))
  IN  IF avgLoss = R(0) THEN R(100)
      ELSE Sub(R(100), Div(R(100), Add(R(1), Div(avgGain, avgLoss))))

\* one iteration of the loop "for (let i = period; i < gains.length; i++)"
RSIValue(gains, losses, period, i) ==
  LET avgGain == Div(Reduce0(Slice(gains, i - period, i)), R(period))
      avgLoss == Div(Reduce0(Slice(losses, i - period, i)), R(period))
  IN  IF avgLoss = R(0) THEN R(100)
      ELSE Sub(R(100), Div(R(100), Add(R(1), Div(avgGain, avgLoss))))

calculateRSI(p, period) ==
  IF Len(p) = 0 THEN Err("Invalid prices array")
  ELSE IF period <= 0 \/ period > Len(p) - 1 THEN Err("Invalid period")
  ELSE IF \E i \in 1..(Len(p) - 1) : InvalidPrice(At(p, i)) \/ InvalidPrice(At(p, i - 1))
       THEN Err("Invalid price")
  ELSE Ok([k \in 1..(Len(Gains(p)) - period) |->
             RSIValue(Gains(p), Losses(p), period, period + (k - 1))])

-----------------------------------------------------------------------------
(* calculateMACD *)

\* mutant of MACDLine: the fast EMA is not shifted by offset
MACDLineUnaligned(fastEMA, slowEMA, offset) ==
  [k \in 1..Len(slowEMA) |-> Sub(At(fastEMA, k - 1), At(slowEMA, k - 1))]

\* macdLine.push(fastEMA[i + offset] - slowEMA[i]), offset = slowPeriod - fastPeriod
MACDLine(fastEMA, slowEMA, offset) ==
  [k \in 1..Len(slowEMA) |-> Sub(At(fastEMA, (k - 1) + offset), At(slowEMA, k - 1))]

\* mutant of Histogram: macdLine is read without histOffset
HistogramUnaligned(macdLine, signalLine) ==
  [k \in 1..Len(signalLine) |-> Sub(At(macdLine, k - 1), At(signalLine, k - 1))]

\* histogram.push(macdLine[i + histOffset] - signalLine[i])
Histogram(macdLine, signalLine) ==
  LET histOffset == Len(macdLine) - Len(signalLine)
  IN  [k \in 1..Len(signalLine) |->
         Sub(At(macdLine, (k - 1) + histOffset), At(signalLine, k - 1))]

\* mutant of MACDChannels: the MACD line is returned untrimmed
MACDChannelsUntrimmed(macdLine, signalLine, histogram) ==
  LET minLength == Min(Len(histogram), Len(signalLine))
  IN  << macdLine, Slice(signalLine, 0, minLength), Slice(histogram, 0, minLength) >>

\* the three returned channels, trimmed to minLength
MACDChannels(macdLine, signalLine, histogram) ==
  LET minLength == Min(Len(histogram), Len(signalLine))
  IN  << Slice(macdLine, Len(macdLine) - minLength, Len(macdLine)),
         Slice(signalLine, 0, minLength),
         Slice(histogram, 0, minLength) >>

\* revision 1 rethrows what its try block throws with this prefix
MACDRethrow(rev, m) == IF rev = 1 THEN "MACD calculation error: " \o m ELSE m

\* mutant of MACDBody: the macdLine.length < signalPeriod test is missing
MACDBodyUnchecked(rev, p, fastPeriod, slowPeriod, signalPeriod) ==
  LET fast == calculateEMA(p, fastPeriod)
      slow == calculateEMA(p, slowPeriod)
  IN  IF ~IsOk(fast) THEN Err(MACDRethrow(rev, fast.err))
      ELSE IF ~IsOk(slow) THEN Err(MACDRethrow(rev, slow.err))
      ELSE LET macdLine == MACDLine(fast.v, slow.v, slowPeriod - fastPeriod)
               signal == calculateEMA(macdLine, signalPeriod)
           IN  IF ~IsOk(signal) THEN Err(MACDRethrow(rev, signal.err))
               ELSE Ok(MACDChannels(macdLine, signal.v, Histogram(macdLine, signal.v)))

\* the body after the four argument checks
MACDBody(rev, p, fastPeriod, slowPeriod, signalPeriod) ==
  LET fast == calculateEMA(p, fastPeriod)
      slow == calculateEMA(p, slowPeriod)
  IN  IF ~IsOk(fast) THEN Err(MACDRethrow(rev, fast.err))
      ELSE IF ~IsOk(slow) THEN Err(MACDRethrow(rev, slow.err))
      ELSE LET macdLine == MACDLine(fast.v, slow.v, slowPeriod - fastPeriod)
           IN  IF Len(macdLine) < signalPeriod
               THEN Err(MACDRethrow(rev, "Insufficient data to calculate signal line"))
               ELSE LET signal == calculateEMA(macdLine, signalPeriod)
                    IN  IF ~IsOk(signal) THEN Err(MACDRethrow(rev, signal.err))
                        ELSE Ok(MACDChannels(macdLine, signal.v,
                                             Histogram(macdLine, signal.v)))

\* the local macdLine of a call that reaches the signal-line computation
MACDLocalLine(p, fastPeriod, slowPeriod) ==
  MACDLine(calculateEMA(p, fastPeriod).v, calculateEMA(p, slowPeriod).v,
           slowPeriod - fastPeriod)

\* the caller's array after calculateMACD: prices is handed to calculateEMA twice
MACDArrayAfter(p, fastPeriod, slowPeriod) ==
  IF Len(p) = 0 \/ fastPeriod <= 0 \/ slowPeriod <= fastPeriod \/ Len(p) <= slowPeriod
  THEN p
  ELSE EMAArrayAfter(EMAArrayAfter(p, fastPeriod), slowPeriod)

\* the number of calls of calculateEMA that a call of calculateMACD makes
MACDEmaCalls(p, fastPeriod, slowPeriod, signalPeriod) ==
  IF \/ Len(p) = 0
     \/ fastPeriod <= 0 \/ slowPeriod <= 0 \/ signalPeriod <= 0
     \/ slowPeriod <= fastPeriod
     \/ Len(p) <= slowPeriod
  THEN 0
  ELSE IF ~IsOk(calculateEMA(p, fastPeriod)) THEN 1
  ELSE IF ~IsOk(calculateEMA(p, slowPeriod)) THEN 2
  ELSE IF Len(MACDLocalLine(p, fastPeriod, slowPeriod)) < signalPeriod THEN 2
  ELSE 3

\* mutant of calculateMACD: the length of the series is tested before the order
\* of the periods
calculateMACDLengthFirst(rev, p, fastPeriod, slowPeriod, signalPeriod) ==
  IF Len(p) = 0 THEN Err("Invalid prices array")
  ELSE IF fastPeriod <= 0 \/ slowPeriod <= 0 \/ signalPeriod <= 0
       THEN Err("Periods must be positive numbers")
  ELSE IF Len(p) <= slowPeriod THEN Err("Not enough price data for the specified periods")
  ELSE IF slowPeriod <= fastPeriod THEN Err("Slow period must be greater than fast period")
  ELSE MACDBody(rev, p, fastPeriod, slowPeriod, signalPeriod)

calculateMACD(rev, p, fastPeriod, slowPeriod, signalPeriod) ==
  IF Len(p) = 0 THEN Err("Invalid prices array")
  ELSE IF fastPeriod <= 0 \/ slowPeriod <= 0 \/ signalPeriod <= 0
       THEN Err("Periods must be positive numbers")
  ELSE IF slowPeriod <= fastPeriod THEN Err("Slow period must be greater than fast period")
  ELSE IF Len(p) <= slowPeriod THEN Err("Not enough price data for the specified periods")
  ELSE MACDBody(rev, p, fastPeriod, slowPeriod, signalPeriod)

-----------------------------------------------------------------------------
(* Square roots.  Math.sqrt of a rational is kept exact: the record         *)
(* [a, b, v] is the real number a + b * sqrt(v), a and b numbers as above,  *)
(* v a finite number >= 0.                                                  *)

Surd(a, b, v) == [a |-> a, b |-> b, v |-> v]

\* Math.sqrt(x)
MathSqrt(x) ==
  LET y == ToNumber(x)
  IN  IF y = NaN \/ Lt(y, R(0)) THEN Surd(NaN, R(0), R(0))
      ELSE IF y = PosInf THEN Surd(PosInf, R(0), R(0))
      ELSE Surd(R(0), R(1), y)

\* s * k, k a number
SurdTimes(s, k) == Surd(Mul(s.a, k), Mul(s.b, k), s.v)

\* x + s and x - s, x a number
SurdPlus(x, s) == Surd(Add(x, s.a), s.b, s.v)

SurdMinus(x, s) == Surd(Sub(x, s.a), Neg(s.b), s.v)

\* 0 <= d + e * sqrt(v)
SurdNonNeg(d, e, v) ==
  IF d = NaN \/ e = NaN THEN FALSE
  ELSE IF Le(R(0), d) /\ Le(R(0), e) THEN TRUE
  ELSE IF Lt(d, R(0)) /\ Le(e, R(0)) THEN FALSE
  ELSE IF Lt(e, R(0)) THEN Le(Mul(Mul(e, e), v), Mul(d, d))
  ELSE Le(Mul(d, d), Mul(Mul(e, e), v))

\* x <= y for two values over the same radicand
SurdLe(x, y) ==
  SurdNonNeg(Sub(y.a, x.a), Sub(y.b, x.b), IF x.b # R(0) THEN x.v ELSE y.v)

-----------------------------------------------------------------------------
(* Number.prototype.toFixed(digits): the decimal string, kept as the number *)
(* it denotes (ties away from zero); "NaN" and "Infinity" stay as they are. *)

RECURSIVE Pow10(_)
Pow10(k) == IF k = 0 THEN 1 ELSE 10 * Pow10(k - 1)

toFixed(x, digits) ==
  LET y == ToNumber(x)
  IN  IF ~IsFinite(y) THEN y
      ELSE LET n == Abs(y[1])
               d == y[2]
               q == n \div d
               f == (2 * (n % d) * Pow10(digits) + d) \div (2 * d)
           IN  Norm(Sign(y[1]) * (q * Pow10(digits) + f), Pow10(digits))

-----------------------------------------------------------------------------
(* The custom functions return a table.  Ok(rows) is the table that starts  *)
(* with the header row and continues with rows; Err(m) is the table of the  *)
(* single cell m.  A date is the index of the bar whose timestamp it shows. *)

\* getApiKey(): apiKey || localStorage.getItem("polygonApiKey")
getApiKey(key, stored) == IF key # "" THEN key ELSE stored

\* arr.reduce((a, b) => a + b), which throws on an empty array
ReduceThrows(arr) == arr = <<>>

Closes(b) == [i \in 1..Len(b) |-> b[i].c]

-----------------------------------------------------------------------------
(* getTechnicalIndicator *)

\* calculateMACD(prices, 12, 26, 9)
MACDFast == 12

MACDSlow == 26

MACDSignal == 9

\* indicator.toUpperCase(), for the indicator names tried
ToUpperCase(s) ==
  CASE s = "sma" -> "SMA"
    [] s = "macd" -> "MACD"
    [] OTHER -> s

\* /^\d{4}-\d{2}-\d{2}$/.test(d), for the date strings tried; an argument left
\* out ("") is replaced by a date the function formats itself
WellFormedDates == {"2024-01-02", "2024-03-01"}

DateOk(d) == d = "" \/ d \in WellFormedDates

\* the cell returned for a response that is not ok
HttpErrorCell(rev, status) ==
  IF rev = 1
  THEN CASE status = 403 ->
              "Access forbidden: Check API key permissions or subscription tier"
         [] status = 429 ->
              "Rate limit exceeded: Try again later or upgrade your subscription"
         [] OTHER -> "Could not retrieve price data (HTTP " \o ToString(status) \o ")"
  ELSE "HTTP error! status: " \o ToString(status)

InvalidPeriodCell(period, len) ==
  "Invalid period: " \o ToString(period) \o ". Must be between 1 and "
    \o ToString(len - 1)

\* mutant of IndicatorStartIndex: RSI rows start where SMA and EMA rows start
IndicatorStartIndexSame(indicator, period) == period - 1

\* startIndex of the SMA, EMA and RSI cases
IndicatorStartIndex(indicator, period) ==
  IF indicator = "RSI" THEN period ELSE period - 1

\* mutant of MACDStartIndex: the rows start at the first MACD-line entry
MACDStartIndexOfLine(len, macdLine) == MACDSlow - 1

\* startIndex = prices.length - macdLine.length
MACDStartIndex(len, macdLine) == len - Len(macdLine)

\* indicatorValues of the SMA, EMA and RSI cases
IndicatorValues(indicator, p, period) ==
  CASE indicator = "SMA" -> calculateSMA(p, period)
    [] indicator = "EMA" -> calculateEMA(p, period)
    [] indicator = "RSI" -> calculateRSI(p, period)

\* the loop over indicatorValues: one row [dates[dateIndex], value.toFixed(4)]
\* when dateIndex < dates.length; rows never holds more than i rows
RECURSIVE SingleRows(_, _, _, _, _)
SingleRows(b, values, startIndex, i, rows) ==
  IF i >= Len(values) \/ Len(rows) > i THEN rows
  ELSE IF startIndex + i < Len(b)
  THEN SingleRows(b, values, startIndex, i + 1,
                  Append(rows, [date |-> b[startIndex + i + 1].t,
                                cells |-> <<toFixed(values[i + 1], 4)>>]))
  ELSE SingleRows(b, values, startIndex, i + 1, rows)

\* the loop over macdLine of the MACD case
RECURSIVE MACDRows(_, _, _, _, _)
MACDRows(b, channels, startIndex, i, rows) ==
  IF i >= Len(channels[1]) \/ Len(rows) > i THEN rows
  ELSE IF startIndex + i < Len(b)
  THEN MACDRows(b, channels, startIndex, i + 1,
                Append(rows, [date |-> b[startIndex + i + 1].t,
                              cells |-> <<toFixed(channels[1][i + 1], 4),
                                          toFixed(channels[2][i + 1], 4),
                                          toFixed(channels[3][i + 1], 4)>>]))
  ELSE MACDRows(b, channels, startIndex, i + 1, rows)

\* what the switch computes: Ok(rows) when it reaches a return, Err(m) when a
\* calculate function throws m
IndicatorSwitch(rev, indicator, b, period) ==
  IF indicator = "MACD"
  THEN LET r == calculateMACD(rev, Closes(b), MACDFast, MACDSlow, MACDSignal)
       IN  IF ~IsOk(r) THEN Err(r.err)
           ELSE Ok(MACDRows(b, r.v, MACDStartIndex(Len(b), r.v[1]), 0, <<>>))
  ELSE LET r == IndicatorValues(indicator, Closes(b), period)
       IN  IF ~IsOk(r) THEN Err(r.err)
           ELSE Ok(SingleRows(b, r.v, IndicatorStartIndex(indicator, period), 0, <<>>))

\* the local indicatorValues (for MACD the three channels) when the rows are built
IndicatorLocalValues(rev, indicator, b, period) ==
  IF ToUpperCase(indicator) = "MACD"
  THEN calculateMACD(rev, Closes(b), MACDFast, MACDSlow, MACDSignal).v
  ELSE IndicatorValues(ToUpperCase(indicator), Closes(b), period).v

\* the message put before calcError.message (revision 1, inner catch) or
\* error.message (revision 2, the only catch)
CatchPrefix(rev) == IF rev = 1 THEN "Calculation error: " ELSE "Error: "

\* mutant of CatchCell: the error is not caught
Uncaught(rev, r) == r

\* catch (error) { return [[prefix + error.message]] }
CatchCell(rev, r) == IF IsOk(r) THEN r ELSE Err(CatchPrefix(rev) \o r.err)

\* the part of getTechnicalIndicator after "const data = await response.json()"
IndicatorTable(rev, indicator, b, period) ==
  IF Len(b) = 0 THEN Err("Insufficient price data to calculate indicator.")
  ELSE IF \E i \in 1..Len(b) : InvalidPrice(b[i].c)
  THEN Err("Invalid price data received")
  ELSE IF period <= 0 \/ period >= Len(b) THEN Err(InvalidPeriodCell(period, Len(b)))
  ELSE IF ToUpperCase(indicator) \notin {"SMA", "EMA", "RSI", "MACD"}
  THEN Err("Unsupported indicator: " \o indicator
             \o ". Available options: SMA, EMA, RSI, MACD")
  ELSE CatchCell(rev, IndicatorSwitch(rev, ToUpperCase(indicator), b, period))

\* req: the arguments and what the network does; net is "ok", "fetch" (fetch
\* rejects) or "json" (response.json() rejects)
getTechnicalIndicator(rev, key, req, b, period) ==
  IF key = "" THEN Err("API key not set. Please set your Polygon.io API key.")
  ELSE IF req.ticker = "" THEN Err("Missing required parameter: ticker")
  ELSE IF req.indicator = "" THEN Err("Missing required parameter: indicator")
  ELSE IF ~DateOk(req.from) \/ ~DateOk(req.to) THEN Err("Date format must be YYYY-MM-DD")
  ELSE IF req.net = "fetch" THEN Err("Error: Failed to fetch")
  ELSE IF req.status # 200 THEN Err(HttpErrorCell(rev, req.status))
  ELSE IF req.net = "json" THEN Err("Error: Unexpected token")
  ELSE IF ~req.hasResults THEN Err("Insufficient price data to calculate indicator.")
  ELSE IndicatorTable(rev, req.indicator, b, period)

\* whether the call gets as far as the switch
ReachesSwitch(key, req, b, period) ==
  /\ key # "" /\ req.ticker # "" /\ req.indicator # ""
  /\ DateOk(req.from) /\ DateOk(req.to)
  /\ req.net = "ok" /\ req.status = 200 /\ req.hasResults
  /\ Len(b) > 0
  /\ \A i \in 1..Len(b) : ~InvalidPrice(b[i].c)
  /\ period > 0 /\ period < Len(b)
  /\ ToUpperCase(req.indicator) \in {"SMA", "EMA", "RSI", "MACD"}

-----------------------------------------------------------------------------
(* getBollingerBands *)

\* mutant of BandRow: upper and lower bands exchanged
BandRowSwapped(b, period, stdDev, i) ==
  LET window == Slice(Closes(b), i - period + 1, i + 1)
      sma == Div(Reduce0(window), R(period))
      squaredDiffs == [k \in 1..Len(window) |->
                         Mul(Sub(window[k], sma), Sub(window[k], sma))]
      variance == Div(Reduce0(squaredDiffs), R(period))
      dev == SurdTimes(MathSqrt(variance), R(stdDev))
  IN  [date |-> i, close |-> At(Closes(b), i), middle |-> Surd(sma, R(0), R(0)),
       upper |-> SurdMinus(sma, dev), lower |-> SurdPlus(sma, dev)]

\* mutant of BandRow: the sample variance, divisor period - 1
BandRowSampleVariance(b, period, stdDev, i) ==
  LET window == Slice(Closes(b), i - period + 1, i + 1)
      sma == Div(Reduce0(window), R(period))
      squaredDiffs == [k \in 1..Len(window) |->
                         Mul(Sub(window[k], sma), Sub(window[k], sma))]
      variance == Div(Reduce0(squaredDiffs), R(period - 1))
      dev == SurdTimes(MathSqrt(variance), R(stdDev))
  IN  [date |-> i, close |-> At(Closes(b), i), middle |-> Surd(sma, R(0), R(0)),
       upper |-> SurdPlus(sma, dev), lower |-> SurdMinus(sma, dev)]

\* one iteration of the loop over i: the row pushed for the window ending at bar i
BandRow(b, period, stdDev, i) ==
  LET window == Slice(Closes(b), i - period + 1, i + 1)
      sma == Div(Reduce0(window), R(period))
      squaredDiffs == [k \in 1..Len(window) |->
                         Mul(Sub(window[k], sma), Sub(window[k], sma))]
      variance == Div(Reduce0(squaredDiffs), R(period))
      dev == SurdTimes(MathSqrt(variance), R(stdDev))
  IN  [date |-> i, close |-> At(Closes(b), i), middle |-> Surd(sma, R(0), R(0)),
       upper |-> SurdPlus(sma, dev), lower |-> SurdMinus(sma, dev)]

\* the part of getBollingerBands after "const data = await response.json()"
BollingerTable(rev, b, period, stdDev) ==
  IF rev = 1 /\ ~(Len(b) >= period)
  THEN Err("Insufficient data for Bollinger Bands calculation.")
  ELSE IF rev = 2 /\ Len(b) = 0
  THEN Err("Insufficient price data to calculate Bollinger Bands.")
  ELSE IF period <= 0
  THEN Err("Error: TypeError")  \* a bar or a window is read at a negative index
  ELSE IF rev = 1 /\ \E i \in (period - 1)..(Len(b) - 1) : ~IsNumberType(At(Closes(b), i))
  THEN Err("Error: TypeError")  \* data.results[i].c.toFixed(2) on null or undefined
  ELSE Ok([k \in 1..(Len(b) - period + 1) |-> BandRow(b, period, stdDev, period - 1 + (k - 1))])

getBollingerBands(rev, key, httpOk, b, period, stdDev) ==
  IF key = "" THEN Err("API key not set. Please set your Polygon.io API key.")
  ELSE IF ~httpOk THEN Err("HTTP error!")
  ELSE BollingerTable(rev, b, period, stdDev)

-----------------------------------------------------------------------------
(* getATR *)

\* Math.max(high - low, Math.abs(high - prevClose), Math.abs(low - prevClose))
TrueRange(bar, prevClose) ==
  MathMax3(Sub(bar.h, bar.l), MathAbs(Sub(bar.h, prevClose)), MathAbs(Sub(bar.l, prevClose)))

\* revision 1: prevClose when bar i is reached (data.results[0].c at the start)
PrevClose1(b, i) == b[Max(i - 1, 0) + 1].c

\* revision 1: trueRanges after the loop "for (let i = 1; i < period; i++)"
ATRSeedRanges1(b, period) ==
  [i \in 1..(period - 1) |-> TrueRange(b[i + 1], PrevClose1(b, i))]

\* revision 1: atr = trueRanges.reduce((a, b) => a + b, 0) / period
ATRSeed1(b, period) == Div(Reduce0(ATRSeedRanges1(b, period)), R(period))

\* mutant of WilderStep: the previous ATR is not weighted by period - 1
WilderStepUnweighted(atr, tr, period) == Div(Add(atr, tr), R(period))

\* atr = ((atr * (period - 1)) + tr) / period
WilderStep(atr, tr, period) == Div(Add(Mul(atr, R(period - 1)), tr), R(period))

\* revision 1: the loop "for (let i = period; i < data.results.length; i++)"
RECURSIVE ATRLoop1(_, _, _, _, _)
ATRLoop1(b, period, i, atr, rows) ==
  IF i >= Len(b) THEN rows
  ELSE LET tr == TrueRange(b[i + 1], PrevClose1(b, i))
           next == WilderStep(atr, tr, period)
       IN  ATRLoop1(b, period, i + 1, next,
                    Append(rows, [date |-> i, raw |-> FALSE, atr |-> next,
                                  cell |-> toFixed(next, 2), tr |-> tr]))

\* revision 2: the whole series trueRanges (entry i-1 is the true range of bar i)
ATRRanges2(b) == [i \in 1..(Len(b) - 1) |-> TrueRange(b[i + 1], b[i].c)]

\* revision 2: atr = trueRanges.slice(0, period).reduce((a, b) => a + b) / period
ATRSeed2(b, period) == Div(Reduce0(Slice(ATRRanges2(b), 0, period)), R(period))

\* revision 2: the loop "for (let i = period; i < trueRanges.length; i++)"
RECURSIVE ATRLoop2(_, _, _, _, _)
ATRLoop2(b, period, i, atr, rows) ==
  IF i >= Len(ATRRanges2(b)) THEN rows
  ELSE LET tr == At(ATRRanges2(b), i)
           next == WilderStep(atr, tr, period)
       IN  ATRLoop2(b, period, i + 1, next,
                    Append(rows, [date |-> i + 1, raw |-> FALSE, atr |-> next,
                                  cell |-> toFixed(next, 4), tr |-> tr]))

\* the part of getATR after "const data = await response.json()"
ATRTable(rev, b, period) ==
  IF rev = 1
  THEN IF ~(Len(b) >= period) THEN Err("Insufficient data for ATR calculation.")
       ELSE IF Len(b) = 0 \/ period < 0
       THEN Err("Error: TypeError")  \* data.results[0] or data.results[i], i < 0
       ELSE Ok(ATRLoop1(b, period, period, ATRSeed1(b, period), <<>>))
  ELSE IF Len(b) = 0 THEN Err("Insufficient price data to calculate ATR.")
       ELSE IF ReduceThrows(Slice(ATRRanges2(b), 0, period))
       THEN Err("Error: TypeError")  \* reduce of an empty array
       ELSE IF period < 0 \/ period >= Len(b)
       THEN Err("Error: TypeError")  \* bars[period] is undefined
       ELSE Ok(ATRLoop2(b, period, period, ATRSeed2(b, period),
                        << [date |-> period, raw |-> TRUE, atr |-> ATRSeed2(b, period),
                            cell |-> toFixed(ATRSeed2(b, period), 4),
                            tr |-> At(ATRRanges2(b), period - 1)] >>))

\* the value of the local atr when the smoothing loop starts
ATRSeedLocal(rev, b, period) ==
  IF rev = 1 THEN ATRSeed1(b, period) ELSE ATRSeed2(b, period)

getATR(rev, key, httpOk, b, period) ==
  IF key = "" THEN Err("API key not set. Please set your Polygon.io API key.")
  ELSE IF ~httpOk THEN Err("HTTP error!")
  ELSE ATRTable(rev, b, period)

-----------------------------------------------------------------------------
(* The indicator functions applied to a bounded family of close series *)

PriceSeries == UNION {[1..n -> {R(v) : v \in 1..MaxPrice}] : n \in 1..MaxLen}

Revisions == {1, 2}

\* a request in which nothing is wrong
FineRequest ==
  [ticker |-> "AAPL", indicator |-> "SMA", from |-> "", to |-> "", net |-> "ok",
   status |-> 200, hasResults |-> TRUE]

NoCall ==
  [fn |-> "none", rev |-> 0, period |-> 0, fast |-> 0, slow |-> 0, signal |-> 0,
   stdDev |-> 0, httpOk |-> TRUE, req |-> FineRequest]

NoLocals == [macdLine |-> <<>>, seed |-> NaN, emaCalls |-> 0, values |-> <<>>]

Init ==
  /\ prices \in PriceSeries
  /\ bars = <<>>
  /\ call = NoCall
  /\ out = Ok(<<>>)
  /\ locals = NoLocals
  /\ apiKey = ""
  /\ storedKey = ""

\* calculateSMA(prices, period): prices is only read by index
DoSMA(period) ==
  /\ call' = [NoCall EXCEPT !.fn = "SMA", !.period = period]
  /\ out' = calculateSMA(prices, period)
  /\ locals' = NoLocals
  /\ UNCHANGED <<prices, bars, apiKey, storedKey>>

DoEMA(period) ==
  /\ call' = [NoCall EXCEPT !.fn = "EMA", !.period = period]
  /\ out' = calculateEMA(prices, period)
  /\ prices' = EMAArrayAfter(prices, period)
  /\ locals' = NoLocals
  /\ UNCHANGED <<bars, apiKey, storedKey>>

\* calculateRSI(prices, period): prices is only read by index
DoRSI(period) ==
  /\ call' = [NoCall EXCEPT !.fn = "RSI", !.period = period]
  /\ out' = calculateRSI(prices, period)
  /\ locals' = NoLocals
  /\ UNCHANGED <<prices, bars, apiKey, storedKey>>

DoMACD(rev, f, s, g) ==
  /\ call' = [NoCall EXCEPT !.fn = "MACD", !.rev = rev, !.fast = f, !.slow = s,
                            !.signal = g]
  /\ out' = calculateMACD(rev, prices, f, s, g)
  /\ prices' = MACDArrayAfter(prices, f, s)
  /\ locals' = [NoLocals EXCEPT
                  !.macdLine = IF IsOk(calculateMACD(rev, prices, f, s, g))
                               THEN MACDLocalLine(prices, f, s) ELSE <<>>,
                  !.emaCalls = MACDEmaCalls(prices, f, s, g)]
  /\ UNCHANGED <<bars, apiKey, storedKey>>

CallSMA == call = NoCall /\ \E period \in 0..(Len(prices) + 1) : DoSMA(period)

CallEMA == call = NoCall /\ \E period \in 0..(Len(prices) + 1) : DoEMA(period)

CallRSI == call = NoCall /\ \E period \in 0..(Len(prices) + 1) : DoRSI(period)

CallMACD ==
  /\ call = NoCall
  /\ \E rev \in Revisions, f \in 0..MaxPeriod, s \in 0..MaxPeriod, g \in 0..MaxPeriod :
       DoMACD(rev, f, s, g)

Next == CallSMA \/ CallEMA \/ CallRSI \/ CallMACD

Spec == Init /\ [][Next]_vars

-----------------------------------------------------------------------------
(* Any sequence of calls on one array, with the API key set in between *)

MaxPureLen == 3

\* setPolygonApiKey(key)
setPolygonApiKey(key) ==
  /\ IF key = ""
     THEN UNCHANGED <<apiKey, storedKey>>
     ELSE apiKey' = key /\ storedKey' = key
  /\ UNCHANGED <<prices, bars, call, out, locals>>

Keys == {"", "k1", "k2"}

\* the MACD periods tried: fast in 1..2, slow in fast..3, signal in 1..2
PureMACDArgs == {a \in (1..2) \X (1..3) \X (1..2) : a[1] <= a[2]}

InitPure ==
  /\ prices \in {p \in PriceSeries : Len(p) <= MaxPureLen}
  /\ bars = <<>>
  /\ call = NoCall
  /\ out = Ok(<<>>)
  /\ locals = NoLocals
  /\ apiKey = ""
  /\ storedKey = ""

AgainSMA == \E period \in 0..(Len(prices) + 1) : DoSMA(period)

AgainEMA == \E period \in 0..(Len(prices) + 1) : DoEMA(period)

AgainRSI == \E period \in 0..(Len(prices) + 1) : DoRSI(period)

AgainMACD == \E rev \in Revisions, a \in PureMACDArgs : DoMACD(rev, a[1], a[2], a[3])

SetKey == \E key \in Keys : setPolygonApiKey(key)

NextPure == AgainSMA \/ AgainEMA \/ AgainRSI \/ AgainMACD \/ SetKey

SpecPure == InitPure /\ [][NextPure]_vars

-----------------------------------------------------------------------------
(* getBollingerBands and getATR applied to a bounded family of fetched bars *)

\* what a bar's high adds to its close
Spreads == {0, 1}

\* bar i: close c, high c + spread, low c, timestamp of day i
MkBars(f) ==
  [i \in 1..Len(f) |->
     [c |-> R(f[i][1]), h |-> R(f[i][1] + f[i][2]), l |-> R(f[i][1]), t |-> i - 1]]

BarSeries ==
  {MkBars(f) : f \in UNION {[1..n -> (1..MaxPrice) \X Spreads] : n \in 1..MaxBars}}

\* the stdDev argument
StdDevs == {-1, 0, 2}

InitBands ==
  /\ prices = <<>>
  /\ bars \in BarSeries
  /\ call = NoCall
  /\ out = Ok(<<>>)
  /\ locals = NoLocals
  /\ apiKey = "key"
  /\ storedKey = ""

CallBollinger ==
  /\ call = NoCall
  /\ \E rev \in Revisions, httpOk \in BOOLEAN, period \in 0..(Len(bars) + 1),
        stdDev \in StdDevs :
       /\ call' = [NoCall EXCEPT !.fn = "Bollinger", !.rev = rev, !.period = period,
                                 !.stdDev = stdDev, !.httpOk = httpOk]
       /\ out' = getBollingerBands(rev, getApiKey(apiKey, storedKey), httpOk, bars, period, stdDev)
  /\ locals' = NoLocals
  /\ UNCHANGED <<prices, bars, apiKey, storedKey>>

CallATR ==
  /\ call = NoCall
  /\ \E rev \in Revisions, httpOk \in BOOLEAN, period \in 0..(Len(bars) + 1) :
       /\ call' = [NoCall EXCEPT !.fn = "ATR", !.rev = rev, !.period = period,
                                 !.httpOk = httpOk]
       /\ out' = getATR(rev, getApiKey(apiKey, storedKey), httpOk, bars, period)
       /\ locals' = IF IsOk(getATR(rev, getApiKey(apiKey, storedKey), httpOk, bars, period))
                    THEN [NoLocals EXCEPT !.seed = ATRSeedLocal(rev, bars, period)]
                    ELSE NoLocals
  /\ UNCHANGED <<prices, bars, apiKey, storedKey>>

NextBands == CallBollinger \/ CallATR

SpecBands == InitBands /\ [][NextBands]_vars

-----------------------------------------------------------------------------
(* getTechnicalIndicator applied to fetched bars: short series of valid     *)
(* closes, short series with one close that is not a finite number, and     *)
(* series long enough for the 12/26/9 MACD.                                 *)

MaxTableLen == 4
MaxBadLen == 2
MaxRows == 2

\* values a decoded close can have besides a finite number
BadValues == {NaN, Null, Undefined, PosInf}

\* bars whose high and low equal the close, bar i dated day i
CloseBars(cs) == [i \in 1..Len(cs) |-> [c |-> cs[i], h |-> cs[i], l |-> cs[i], t |-> i - 1]]

ValidCloses(maxLen) == UNION {[1..n -> {R(v) : v \in 1..MaxPrice}] : n \in 0..maxLen}

\* series of valid closes in which the element at one position is replaced
OneBadCloses(maxLen) ==
  UNION {{[cs EXCEPT ![pos] = bad] : pos \in 1..Len(cs), bad \in BadValues} :
           cs \in ValidCloses(maxLen)}

\* n closes equal to 1 followed by a last close w
LongCloses(n, w) == [i \in 1..n |-> IF i = n THEN R(w) ELSE R(1)]

\* lengths around what calculateMACD(prices, 12, 26, 9) needs
LongLengths ==
  {MACDSlow + 1} \cup {MACDSlow + MACDSignal - 2 + r : r \in 0..MaxRows}

TableBars ==
  {CloseBars(cs) : cs \in ValidCloses(MaxTableLen) \cup OneBadCloses(MaxBadLen)}
    \cup {CloseBars(LongCloses(n, w)) : n \in LongLengths, w \in 1..MaxPrice}

Indicators == {"SMA", "EMA", "RSI", "MACD", "macd", "XYZ"}

\* requests in which one thing is wrong, or a date is given
OtherRequests ==
  { [FineRequest EXCEPT !.ticker = ""],
    [FineRequest EXCEPT !.indicator = ""],
    [FineRequest EXCEPT !.from = "2024-01-02", !.to = "2024-03-01"],
    [FineRequest EXCEPT !.from = "01/02/2024"],
    [FineRequest EXCEPT !.to = "March 1"],
    [FineRequest EXCEPT !.net = "fetch"],
    [FineRequest EXCEPT !.net = "json"],
    [FineRequest EXCEPT !.status = 403],
    [FineRequest EXCEPT !.status = 429],
    [FineRequest EXCEPT !.status = 500],
    [FineRequest EXCEPT !.hasResults = FALSE] }

Requests == {[FineRequest EXCEPT !.indicator = ind] : ind \in Indicators} \cup OtherRequests

\* the periods tried on bars b
TablePeriods(b) == (0..Min(Len(b) + 1, MaxPeriod + 2)) \cup {Len(b)}

InitTable ==
  /\ bars \in TableBars
  /\ prices = Closes(bars)
  /\ call = NoCall
  /\ out = Ok(<<>>)
  /\ locals = NoLocals
  /\ apiKey = ""
  /\ storedKey \in {"", "stored"}

DoIndicator(rev, req, period) ==
  /\ call' = [NoCall EXCEPT !.fn = "Indicator", !.rev = rev, !.period = period,
                            !.req = req]
  /\ out' = getTechnicalIndicator(rev, getApiKey(apiKey, storedKey), req, bars, period)
  /\ locals' = IF ReachesSwitch(getApiKey(apiKey, storedKey), req, bars, period)
               THEN [NoLocals EXCEPT
                       !.values = IndicatorLocalValues(rev, req.indicator, bars, period)]
               ELSE NoLocals
  /\ UNCHANGED <<prices, bars, apiKey, storedKey>>

\* a call that returns before it looks at the indicator and the period is tried
\* with one indicator and one period only; the long series, which only MACD
\* needs, are tried with MACD
CallIndicator ==
  /\ call = NoCall
  /\ \E rev \in Revisions, req \in Requests, period \in TablePeriods(bars) :
       /\ (req \in OtherRequests \/ getApiKey(apiKey, storedKey) = "") =>
            (req.indicator \in {"", "SMA"} /\ period = 1)
       /\ (Len(bars) > MaxTableLen) =>
            (req \notin OtherRequests /\ ToUpperCase(req.indicator) = "MACD")
       /\ DoIndicator(rev, req, period)

NextTable == CallIndicator

SpecTable == InitTable /\ [][NextTable]_vars

-----------------------------------------------------------------------------
(* Every indicator function applied to bars in which one close or one high  *)
(* is not a finite number.                                                  *)

\* bars of valid prices in which one field of one bar is replaced
BadBars(maxLen) ==
  UNION {{[CloseBars(cs) EXCEPT ![pos][fld] = bad] :
            pos \in 1..Len(cs), fld \in {"c", "h"}, bad \in BadValues} :
           cs \in ValidCloses(maxLen)}

InitInvalid ==
  /\ bars \in BadBars(MaxBadLen)
  /\ prices = Closes(bars)
  /\ call = NoCall
  /\ out = Ok(<<>>)
  /\ locals = NoLocals
  /\ apiKey = "key"
  /\ storedKey = ""

CallIndicatorFine ==
  /\ call = NoCall
  /\ \E rev \in Revisions, ind \in {"SMA", "EMA", "RSI", "MACD"},
        period \in 0..(Len(bars) + 1) :
       DoIndicator(rev, [FineRequest EXCEPT !.indicator = ind], period)

CallMACDFew ==
  /\ call = NoCall
  /\ \E rev \in Revisions, a \in PureMACDArgs : DoMACD(rev, a[1], a[2], a[3])

NextInvalid ==
  \/ CallSMA \/ CallEMA \/ CallRSI \/ CallMACDFew
  \/ CallIndicatorFine \/ CallBollinger \/ CallATR

SpecInvalid == InitInvalid /\ [][NextInvalid]_vars

-----------------------------------------------------------------------------
(* Reference definitions used to state the properties: textbook formulas,   *)
(* written independently of the loops above.                                *)

NumericSeries(p) == \A i \in 1..Len(p) : IsFinite(p[i])

\* p[a] + ... + p[b], 0-based, ascending
RECURSIVE RefSum(_, _, _)
RefSum(p, a, b) == IF a > b THEN R(0) ELSE Add(At(p, a), RefSum(p, a + 1, b))

RefMean(p, a, b) == Div(RefSum(p, a, b), R(b - a + 1))

\* the EMA of series p with the given period at index t of p (t >= period-1)
RECURSIVE RefEMAAt(_, _, _)
RefEMAAt(p, period, t) ==
  IF t <= period - 1 THEN RefMean(p, 0, period - 1)
  ELSE LET prev == RefEMAAt(p, period, t - 1)
       IN  Add(Mul(Sub(At(p, t), prev), Div(R(2), R(period + 1))), prev)

\* day-over-day change number c (0-based): p[c+1] - p[c]
RefChange(p, c) == Sub(At(p, c + 1), At(p, c))

\* sum of the increases (sign = 1) or of the decreases (sign = -1) among changes a..b
RECURSIVE RefMoveSum(_, _, _, _)
RefMoveSum(p, a, b, sign) ==
  IF a > b THEN R(0)
  ELSE LET c == RefChange(p, a)
           m == IF sign = 1 THEN (IF Lt(R(0), c) THEN c ELSE R(0))
                ELSE (IF Lt(c, R(0)) THEN Neg(c) ELSE R(0))
       IN  Add(m, RefMoveSum(p, a + 1, b, sign))

-----------------------------------------------------------------------------
(* Properties *)

\* C1: for a numeric series and 1 <= period <= len(prices), calculateSMA returns
\* exactly len(prices) - period + 1 values and value j is the arithmetic mean of
\* prices[j .. j+period-1].
C1_SMAWindowMeans ==
  (call.fn = "SMA" /\ NumericSeries(prices)
     /\ 1 <= call.period /\ call.period <= Len(prices)) =>
    /\ IsOk(out)
    /\ Len(out.v) = Len(prices) - call.period + 1
    /\ \A j \in 0..(Len(prices) - call.period) :
         At(out.v, j) = RefMean(prices, j, j + call.period - 1)

C1_Witness ==
  /\ call.fn = "SMA" /\ call.period = 3 /\ Len(prices) = 5
  /\ IsOk(out) /\ Len(out.v) = 3
  /\ At(out.v, 0) # At(out.v, 1) /\ At(out.v, 1) # At(out.v, 2)

\* C2: for a numeric series and 1 <= period <= len(prices), calculateEMA returns
\* len(prices) - period + 1 values; value 0 is the mean of the first period prices
\* and value k > 0 is (prices[period-1+k] - value[k-1]) * 2/(period+1) + value[k-1].
C2_EMARecurrence ==
  (call.fn = "EMA" /\ NumericSeries(prices)
     /\ 1 <= call.period /\ call.period <= Len(prices)) =>
    /\ IsOk(out)
    /\ Len(out.v) = Len(prices) - call.period + 1
    /\ At(out.v, 0) = RefMean(prices, 0, call.period - 1)
    /\ \A k \in 1..(Len(prices) - call.period) :
         At(out.v, k) =
           Add(Mul(Sub(At(prices, call.period - 1 + k), At(out.v, k - 1)),
                   Div(R(2), R(call.period + 1))),
               At(out.v, k - 1))

C2_Witness ==
  /\ call.fn = "EMA" /\ call.period = 3 /\ Len(prices) = 5
  /\ IsOk(out) /\ Len(out.v) = 3
  /\ At(out.v, 0) # At(prices, 0)
  /\ At(out.v, 1) # At(out.v, 0) /\ At(out.v, 2) # At(out.v, 1)

\* C3: whenever calculateRSI accepts its input it returns len(prices) - period - 1
\* values; value j is exactly 100 when the period changes starting at change j
\* contain no decrease, and otherwise 100 - 100/(1 + avgGain/avgLoss) with simple
\* means over those changes; no value comes from a division by zero (each is finite).
C3_RSIValues ==
  (call.fn = "RSI" /\ IsOk(out)) =>
    /\ Len(out.v) = Len(prices) - call.period - 1
    /\ \A j \in 0..(Len(prices) - call.period - 2) :
         LET up == RefMoveSum(prices, j, j + call.period - 1, 1)
             down == RefMoveSum(prices, j, j + call.period - 1, -1)
         IN  /\ IsFinite(At(out.v, j))
             /\ IF down = R(0) THEN At(out.v, j) = R(100)
                ELSE At(out.v, j) =
                       Sub(R(100),
                           Div(R(100),
                               Add(R(1), Div(Div(up, R(call.period)),
                                             Div(down, R(call.period))))))

\* a window without a loss and a window with a gain and a loss, in one result
C3_Witness ==
  /\ call.fn = "RSI" /\ IsOk(out) /\ Len(out.v) >= 2
  /\ \E j \in 0..(Len(out.v) - 1) :
       /\ RefMoveSum(prices, j, j + call.period - 1, -1) = R(0)
       /\ At(out.v, j) = R(100)
  /\ \E j \in 0..(Len(out.v) - 1) :
       /\ RefMoveSum(prices, j, j + call.period - 1, -1) # R(0)
       /\ RefMoveSum(prices, j, j + call.period - 1, 1) # R(0)
       /\ At(out.v, j) # R(100)

\* C4: for every input calculateMACD accepts, the three returned channels have the
\* same length len(prices) - slowPeriod - signalPeriod + 2, which is at most the
\* length len(prices) - slowPeriod + 1 of the untrimmed MACD line.
C4_MACDChannelLengths ==
  (call.fn = "MACD" /\ IsOk(out)) =>
    /\ Len(locals.macdLine) = Len(prices) - call.slow + 1
    /\ \A c \in 1..3 : Len(out.v[c]) = Len(prices) - call.slow - call.signal + 2
    /\ Len(out.v[3]) = Len(out.v[2])
    /\ Len(out.v[3]) <= Len(locals.macdLine)
    /\ Len(out.v[3]) >= 1

C4_Witness ==
  /\ call.fn = "MACD" /\ IsOk(out)
  /\ Len(out.v[1]) >= 2
  /\ Len(out.v[1]) < Len(locals.macdLine)

\* C5: element i of the intermediate MACD line is fastEMA[i + slowPeriod - fastPeriod]
\* - slowEMA[i]: both EMAs are taken at input price index slowPeriod - 1 + i, for
\* every i from 0 to len(prices) - slowPeriod.
C5_MACDLineAlignment ==
  (call.fn = "MACD" /\ IsOk(out)) =>
    /\ Len(locals.macdLine) = Len(prices) - call.slow + 1
    /\ \A i \in 0..(Len(prices) - call.slow) :
         /\ At(locals.macdLine, i) =
              Sub(At(calculateEMA(prices, call.fast).v, i + (call.slow - call.fast)),
                  At(calculateEMA(prices, call.slow).v, i))
         /\ At(locals.macdLine, i) =
              Sub(RefEMAAt(prices, call.fast, call.slow - 1 + i),
                  RefEMAAt(prices, call.slow, call.slow - 1 + i))

C5_Witness ==
  /\ call.fn = "MACD" /\ IsOk(out)
  /\ call.slow - call.fast = 2
  /\ Len(locals.macdLine) >= 3
  /\ \E i \in 0..(Len(locals.macdLine) - 1) : At(locals.macdLine, i) # R(0)

\* C6: in the returned channels, entry i of each refers to input price index
\* len(prices) - n + i (n the channel length): the MACD entry is the MACD line at
\* that index, the signal entry is the EMA with period signalPeriod of the untrimmed
\* MACD line at that index, and histogram[i] = macdLine[i] - signalLine[i].
C6_MACDChannelAlignment ==
  (call.fn = "MACD" /\ IsOk(out)) =>
    LET n == Len(out.v[3])
        first == Len(prices) - n
    IN  \A i \in 0..(n - 1) :
          /\ At(out.v[1], i) =
               Sub(RefEMAAt(prices, call.fast, first + i),
                   RefEMAAt(prices, call.slow, first + i))
          /\ At(out.v[2], i) =
               RefEMAAt(locals.macdLine, call.signal, first + i - (call.slow - 1))
          /\ At(out.v[3], i) = Sub(At(out.v[1], i), At(out.v[2], i))

C6_Witness ==
  /\ call.fn = "MACD" /\ IsOk(out)
  /\ call.signal >= 2
  /\ Len(out.v[3]) >= 2
  /\ Len(out.v[1]) < Len(locals.macdLine)
  /\ \E i \in 0..(Len(out.v[3]) - 1) : At(out.v[3], i) # R(0)

\* the true range of bar i (0-based, i >= 1), from the definition
RefTrueRange(b, i) ==
  LET hl == Sub(b[i + 1].h, b[i + 1].l)
      hc == MathAbs(Sub(b[i + 1].h, b[i].c))
      lc == MathAbs(Sub(b[i + 1].l, b[i].c))
  IN  CHOOSE m \in {hl, hc, lc} : \A x \in {hl, hc, lc} : Le(x, m)

\* the true ranges of bars 1 .. Len(b)-1
RefTrueRanges(b) == [i \in 1..(Len(b) - 1) |-> RefTrueRange(b, i)]

NumericCloses(b) == \A i \in 1..Len(b) : IsFinite(b[i].c)

\* C7: in every row computed by getBollingerBands from numeric closes with
\* period >= 1 and a multiplier >= 0, lower band <= middle band <= upper band.
C7_BandOrdering ==
  (call.fn = "Bollinger" /\ IsOk(out) /\ NumericCloses(bars)
     /\ call.period >= 1 /\ call.stdDev >= 0) =>
    \A k \in 1..Len(out.v) :
      /\ SurdLe(out.v[k].lower, out.v[k].middle)
      /\ SurdLe(out.v[k].middle, out.v[k].upper)

\* a table of two rows or more in which some window has a positive deviation
C7_Witness ==
  /\ call.fn = "Bollinger" /\ IsOk(out) /\ call.stdDev = 2 /\ call.period >= 2
  /\ Len(out.v) >= 2
  /\ \E k \in 1..Len(out.v) :
       /\ ~SurdLe(out.v[k].middle, out.v[k].lower)
       /\ ~SurdLe(out.v[k].upper, out.v[k].middle)

\* C8: in getATR, in both revisions, the ATR from which smoothing starts is the
\* mean of the first period true ranges, those of bars 1 .. period.
C8_SeedIsMeanOfFirstPeriodRanges ==
  (call.fn = "ATR" /\ IsOk(out) /\ call.period >= 1 /\ Len(bars) >= call.period + 1) =>
    locals.seed = RefMean(RefTrueRanges(bars), 0, call.period - 1)

\* C8 restricted to revision 2, where it holds
C8_SeedRevision2 ==
  (call.fn = "ATR" /\ call.rev = 2 /\ IsOk(out)) =>
    /\ call.period >= 1 /\ Len(bars) >= call.period + 1
    /\ locals.seed = RefMean(RefTrueRanges(bars), 0, call.period - 1)
    /\ out.v[1].atr = locals.seed

\* every bar after the first has true range r
ConstantRange(b, r) == \A i \in 1..(Len(b) - 1) : RefTrueRange(b, i) = r

\* C9: when the true range is the same r on every bar, the ATR of every row
\* emitted by getATR is exactly r.
C9_ConstantRangeFixedPoint ==
  (call.fn = "ATR" /\ IsOk(out) /\ call.period >= 1 /\ Len(bars) >= 2
     /\ ConstantRange(bars, RefTrueRange(bars, 1))) =>
    \A k \in 1..Len(out.v) :
      /\ out.v[k].atr = RefTrueRange(bars, 1)
      /\ out.v[k].cell = RefTrueRange(bars, 1)

\* C9 restricted to revision 2, where it holds
C9_FixedPointRevision2 ==
  (call.fn = "ATR" /\ call.rev = 2 /\ IsOk(out) /\ Len(bars) >= 2
     /\ ConstantRange(bars, RefTrueRange(bars, 1))) =>
    \A k \in 1..Len(out.v) : out.v[k].atr = RefTrueRange(bars, 1)

\* the smoothing step alone: r is a fixed point for every period >= 1
C9_WilderFixedPoint ==
  (call.fn = "ATR" /\ IsOk(out) /\ call.period >= 1) =>
    \A k \in 1..Len(out.v) : WilderStep(out.v[k].tr, out.v[k].tr, call.period) = out.v[k].tr

C11_SMAPeriodCheck ==
  (call.fn = "SMA" /\ Len(prices) >= 1 /\ NumericSeries(prices)) =>
    /\ (out.err = "Invalid period") <=>
         (call.period <= 0 \/ call.period > Len(prices))
    /\ (call.period = Len(prices)) =>
         (IsOk(out) /\ Len(out.v) = 1 /\ out.v[1] = RefMean(prices, 0, Len(prices) - 1))
    /\ ~IsOk(out) => out.v = <<>>

\* the whole series is one window
C11_Witness ==
  /\ call.fn = "SMA" /\ Len(prices) >= 2 /\ call.period = Len(prices)
  /\ IsOk(out) /\ Len(out.v) = 1

\* C12: calculateRSI fails with the invalid-period error whenever period <= 0 or
\* period >= len(prices) - 1.
C12_RSIPeriodCheck ==
  (call.fn = "RSI" /\ NumericSeries(prices)
     /\ (call.period <= 0 \/ call.period >= Len(prices) - 1)) =>
    out.err = "Invalid period"

\* what the code does at the boundary: period = len(prices) - 1 is accepted and
\* gives an empty result; only larger periods are rejected
C12_RSIAcceptsLenMinusOne ==
  (call.fn = "RSI" /\ NumericSeries(prices) /\ call.period >= 1) =>
    /\ (out.err = "Invalid period") <=> (call.period > Len(prices) - 1)
    /\ (call.period = Len(prices) - 1) => out = Ok(<<>>)

\* the messages of the two insufficient-data errors of calculateMACD
InsufficientData(rev) ==
  { "Not enough price data for the specified periods",
    MACDRethrow(rev, "Insufficient data to calculate signal line") }

\* C13: calculateMACD on a non-empty series with three positive periods and
\* slowPeriod <= fastPeriod fails with the ordering error whatever the length of the
\* series; with a non-positive period it fails with the periods-must-be-positive
\* error instead; in neither case is an EMA computed.
C13_MACDPeriodErrors ==
  (call.fn = "MACD" /\ Len(prices) >= 1) =>
    /\ (call.fast <= 0 \/ call.slow <= 0 \/ call.signal <= 0) =>
         /\ out = Err("Periods must be positive numbers")
         /\ locals.emaCalls = 0
    /\ (call.fast > 0 /\ call.slow > 0 /\ call.signal > 0 /\ call.slow <= call.fast) =>
         /\ out = Err("Slow period must be greater than fast period")
         /\ locals.emaCalls = 0

\* the ordering error on a series that is also too short for the slow period
C13_Witness ==
  /\ call.fn = "MACD" /\ call.fast = 3 /\ call.slow = 2 /\ call.signal >= 1
  /\ Len(prices) <= call.slow
  /\ out.err = "Slow period must be greater than fast period"

\* C14: on a numeric series, with positive periods and fastPeriod < slowPeriod,
\* calculateMACD fails with an insufficient-data error exactly when len(prices) <=
\* slowPeriod or the MACD line (length len(prices) - slowPeriod + 1) is shorter than
\* signalPeriod; in every other case each returned channel has at least one element.
C14_MACDInsufficientData ==
  (call.fn = "MACD" /\ Len(prices) >= 1 /\ NumericSeries(prices)
     /\ call.fast > 0 /\ call.signal > 0 /\ call.fast < call.slow) =>
    LET short == \/ Len(prices) <= call.slow
                 \/ Len(prices) - call.slow + 1 < call.signal
    IN  /\ short <=> (out.err \in InsufficientData(call.rev))
        /\ short => out.v = <<>>
        /\ ~short => (IsOk(out) /\ Len(out.v) = 3 /\ \A c \in 1..3 : Len(out.v[c]) >= 1)

\* a series long enough for the slow EMA whose MACD line is too short for the signal
C14_Witness ==
  /\ call.fn = "MACD" /\ call.fast = 1 /\ call.slow = 2 /\ call.signal = 3
  /\ Len(prices) = 3
  /\ locals.emaCalls = 2
  /\ out.err \in InsufficientData(call.rev)

\* C15: calculateMACD needs at least slowPeriod + signalPeriod price points: on
\* every series with fewer points it fails and returns no channels.
C15_MACDNeedsSlowPlusSignal ==
  (call.fn = "MACD" /\ Len(prices) >= 1 /\ NumericSeries(prices)
     /\ call.fast > 0 /\ call.signal > 0 /\ call.fast < call.slow
     /\ Len(prices) < call.slow + call.signal) =>
    (~IsOk(out) /\ out.v = <<>>)

\* what the code requires: slowPeriod + signalPeriod - 1 points
C15_MACDNeedsOneLess ==
  (call.fn = "MACD" /\ Len(prices) >= 1 /\ NumericSeries(prices)
     /\ call.fast > 0 /\ call.signal > 0 /\ call.fast < call.slow) =>
    (IsOk(out) <=> Len(prices) >= Max(call.slow + call.signal - 1, call.slow + 1))

\* the messages of the invalid-price errors
InvalidPriceErrors ==
  {"Invalid price", "MACD calculation error: Invalid price", "Invalid price data received"}

HasNonFinite(p) == \E i \in 1..Len(p) : ~IsFinite(p[i])

\* NaN, null, undefined: the values the code's own test rejects
HasNonNumeric(p) == \E i \in 1..Len(p) : InvalidPrice(p[i])

\* the period is one the function called accepts on a series of this length
PeriodAccepted ==
  /\ call.period >= 1
  /\ call.period <= Len(prices) - (IF call.fn = "RSI" THEN 1 ELSE 0)

\* C16: getTechnicalIndicator, calculateSMA, calculateEMA and calculateRSI fail with
\* an invalid-price error whenever an element of the price series is not a finite
\* number (NaN, null, undefined, a non-number or an infinity), and return no
\* indicator value for such a series.  (When the period is invalid as well, the
\* calculate functions report the period first; that is not counted against the
\* claim here.)
C16_NonFiniteRejected ==
  (call.fn \in {"SMA", "EMA", "RSI", "Indicator"} /\ HasNonFinite(prices)) =>
    /\ ~IsOk(out)
    /\ out.v = <<>>
    /\ (call.fn = "Indicator" \/ PeriodAccepted) => out.err \in InvalidPriceErrors

\* C16 without the infinities, where it holds
C16_NonNumericRejected ==
  (call.fn \in {"SMA", "EMA", "RSI", "Indicator"} /\ HasNonNumeric(prices)) =>
    /\ ~IsOk(out)
    /\ out.v = <<>>
    /\ (call.fn = "Indicator" \/ PeriodAccepted) => out.err \in InvalidPriceErrors

\* C17: each of SMA, EMA, RSI, MACD, Bollinger Bands and ATR, invoked on bars with
\* a non-numeric close (for ATR: close, high or low), reports an error and emits no
\* computed row.
C17_EveryFunctionValidates ==
  (\/ /\ call.fn \in {"SMA", "EMA", "RSI", "MACD", "Bollinger"}
      /\ HasNonNumeric(Closes(bars))
   \/ /\ call.fn = "ATR"
      /\ \E i \in 1..Len(bars) :
           InvalidPrice(bars[i].c) \/ InvalidPrice(bars[i].h) \/ InvalidPrice(bars[i].l)) =>
    (~IsOk(out) /\ out.v = <<>>)

\* C17 for the four calculate functions, where it holds
C17_CalculateFunctionsValidate ==
  (call.fn \in {"SMA", "EMA", "RSI", "MACD"} /\ HasNonNumeric(prices)) =>
    (~IsOk(out) /\ out.v = <<>>)

\* what the calculate function called by the switch returns or throws
SwitchOutcome ==
  IF ToUpperCase(call.req.indicator) = "MACD"
  THEN calculateMACD(call.rev, Closes(bars), 12, 26, 9)
  ELSE IndicatorValues(ToUpperCase(call.req.indicator), Closes(bars), call.period)

\* the cells getTechnicalIndicator returns from its own tests
ReturnedCells ==
  { "API key not set. Please set your Polygon.io API key.",
    "Missing required parameter: ticker",
    "Missing required parameter: indicator",
    "Date format must be YYYY-MM-DD",
    "Insufficient price data to calculate indicator.",
    "Invalid price data received",
    HttpErrorCell(call.rev, call.req.status),
    InvalidPeriodCell(call.period, Len(bars)),
    "Unsupported indicator: " \o call.req.indicator
      \o ". Available options: SMA, EMA, RSI, MACD",
    "Error: Failed to fetch",
    "Error: Unexpected token" }

\* C18: getTechnicalIndicator lets no exception escape and returns no partial
\* table: the result is a complete table (the header row and one row per computed
\* value) or one cell with a diagnostic message, and every error thrown by
\* calculateSMA, calculateEMA, calculateRSI or calculateMACD ends as such a cell.
C18_TableOrDiagnostic ==
  (call.fn = "Indicator") =>
    LET reached == ReachesSwitch(getApiKey(apiKey, storedKey), call.req, bars, call.period)
        macd == ToUpperCase(call.req.indicator) = "MACD"
    IN  /\ IsOk(out) =>
             /\ reached /\ IsOk(SwitchOutcome)
             /\ Len(out.v) = IF macd THEN Len(locals.values[1]) ELSE Len(locals.values)
             /\ \A k \in 1..Len(out.v) :
                  /\ \E i \in 1..Len(bars) : out.v[k].date = bars[i].t
                  /\ Len(out.v[k].cells) = IF macd THEN 3 ELSE 1
                  /\ \A c \in 1..Len(out.v[k].cells) : IsNumberType(out.v[k].cells[c])
        /\ ~IsOk(out) => out.v = <<>>
        /\ (reached /\ ~IsOk(SwitchOutcome)) =>
             out = Err((IF call.rev = 1 THEN "Calculation error: " ELSE "Error: ")
                         \o SwitchOutcome.err)
        /\ (~IsOk(out) /\ ~(reached /\ ~IsOk(SwitchOutcome))) => out.err \in ReturnedCells

\* calculateMACD has thrown inside its own try block and the message has become a cell
C18_Witness ==
  /\ call.fn = "Indicator" /\ call.rev = 1 /\ Len(bars) = 27
  /\ out.err = "Calculation error: MACD calculation error: "
                 \o "Insufficient data to calculate signal line"

\* the value of indicator ind with this period whose latest input is the close of
\* bar d, by the textbook formulas
RefIndicatorAt(ind, p, period, d) ==
  CASE ind = "SMA" -> RefMean(p, d - period + 1, d)
    [] ind = "EMA" -> RefEMAAt(p, period, d)
    [] ind = "RSI" ->
         LET up == RefMoveSum(p, d - period, d - 1, 1)
             down == RefMoveSum(p, d - period, d - 1, -1)
         IN  IF down = R(0) THEN R(100)
             ELSE Sub(R(100), Div(R(100), Add(R(1), Div(Div(up, R(period)),
                                                       Div(down, R(period))))))

\* C19: in a successful table for SMA or EMA, data row k has the date of bar
\* k + period - 1, for RSI of bar k + period; every computed value has its row; the
\* date is that of the latest bar used for the row's value; the dates follow the
\* input order without repetition.
C19_RowDates ==
  (call.fn = "Indicator" /\ IsOk(out)
     /\ ToUpperCase(call.req.indicator) \in {"SMA", "EMA", "RSI"}) =>
    LET ind == ToUpperCase(call.req.indicator)
    IN  /\ Len(out.v) = Len(locals.values)
        /\ \A k \in 0..(Len(out.v) - 1) :
             LET d == IF ind = "RSI" THEN k + call.period ELSE k + call.period - 1
             IN  /\ d < Len(bars)
                 /\ out.v[k + 1].date = bars[d + 1].t
                 /\ out.v[k + 1].cells =
                      <<toFixed(RefIndicatorAt(ind, Closes(bars), call.period, d), 4)>>
                 /\ k >= 1 => out.v[k].date < out.v[k + 1].date

\* an RSI table of two rows with different values
C19_Witness ==
  /\ call.fn = "Indicator" /\ IsOk(out) /\ call.req.indicator = "RSI"
  /\ Len(out.v) = 2
  /\ out.v[1].cells # out.v[2].cells
  /\ out.v[2].date = Len(bars) - 2

\* C20: in a successful MACD table with n rows, data row k has the date of bar
\* len(prices) - n + k, so the last row has the date of the last bar, and the three
\* values of a row are computed only from the prices up to that date: they are the
\* last entries of the channels calculateMACD returns for the series cut there.
C20_MACDRowDates ==
  (call.fn = "Indicator" /\ IsOk(out) /\ ToUpperCase(call.req.indicator) = "MACD") =>
    LET n == Len(locals.values[1])
        len == Len(bars)
    IN  /\ n >= 1 /\ Len(out.v) = n
        /\ out.v[n].date = bars[len].t
        /\ \A k \in 0..(n - 1) :
             LET d == len - n + k
                 upTo == calculateMACD(call.rev, SubSeq(Closes(bars), 1, d + 1), 12, 26, 9)
             IN  /\ out.v[k + 1].date = bars[d + 1].t
                 /\ IsOk(upTo)
                 /\ Len(upTo.v[1]) = k + 1
                 /\ out.v[k + 1].cells = <<toFixed(upTo.v[1][k + 1], 4),
                                           toFixed(upTo.v[2][k + 1], 4),
                                           toFixed(upTo.v[3][k + 1], 4)>>

\* a MACD table of two rows or more whose last row differs from the one before
C20_Witness ==
  /\ call.fn = "Indicator" /\ IsOk(out) /\ ToUpperCase(call.req.indicator) = "MACD"
  /\ Len(out.v) >= 2
  /\ out.v[Len(out.v)].cells # out.v[Len(out.v) - 1].cells
  /\ out.v[Len(out.v)].cells[3] # R(0)

\* C21: for indicator MACD the table getTechnicalIndicator returns for a fetched
\* series is the same for every value of the period argument.
C21_MACDIgnoresPeriod ==
  (call.fn = "Indicator" /\ ToUpperCase(call.req.indicator) = "MACD") =>
    \A q \in TablePeriods(bars) :
      getTechnicalIndicator(call.rev, getApiKey(apiKey, storedKey), call.req, bars, q)
        = out

\* the period argument has no effect on a MACD table among the periods that pass
\* the test "period <= 0 || period >= prices.length"
C21_MACDIgnoresAcceptedPeriod ==
  (call.fn = "Indicator" /\ ToUpperCase(call.req.indicator) = "MACD"
     /\ call.period >= 1 /\ call.period < Len(bars)) =>
    \A q \in 1..(Len(bars) - 1) :
      getTechnicalIndicator(call.rev, getApiKey(apiKey, storedKey), call.req, bars, q)
        = out

\* the population variance of the closes of bars i-period+1 .. i (0-based)
RefVariance(b, period, i) ==
  LET c == Closes(b)
      m == RefMean(c, i - period + 1, i)
      sq == [j \in 1..period |->
               Mul(Sub(At(c, i - period + j), m), Sub(At(c, i - period + j), m))]
  IN  Div(RefSum(sq, 0, period - 1), R(period))

\* C22: getBollingerBands emits one row for every window ending at bar i, i from
\* period-1 to the last bar; the row has the date of bar i, its middle band is the
\* mean of the window, the bands lie at the same distance on either side of it and
\* (upper - middle)^2 = (middle - lower)^2 = multiplier^2 * V, V the population
\* variance of the window (divisor period).
C22_BandRows ==
  (call.fn = "Bollinger" /\ IsOk(out)) =>
    /\ Len(out.v) = Max(Len(bars) - call.period + 1, 0)
    /\ \A k \in 1..Len(out.v) :
         LET i == call.period - 1 + (k - 1)
             m == RefMean(Closes(bars), i - call.period + 1, i)
             row == out.v[k]
         IN  /\ row.date = bars[i + 1].t
             /\ row.middle = Surd(m, R(0), R(0))
             /\ row.upper.a = m /\ row.lower.a = m
             /\ row.lower.b = Neg(row.upper.b) /\ row.lower.v = row.upper.v
             /\ Mul(Mul(row.upper.b, row.upper.b), row.upper.v)
                  = Mul(R(call.stdDev * call.stdDev), RefVariance(bars, call.period, i))
             /\ Mul(Mul(row.lower.b, row.lower.b), row.lower.v)
                  = Mul(R(call.stdDev * call.stdDev), RefVariance(bars, call.period, i))

\* a table of two rows for windows of two bars that differ in mean and in variance
C22_Witness ==
  /\ call.fn = "Bollinger" /\ IsOk(out) /\ call.period = 2 /\ call.stdDev = 2
  /\ Len(out.v) >= 2
  /\ out.v[1].middle # out.v[2].middle
  /\ RefVariance(bars, 2, 1) # R(0)
  /\ RefVariance(bars, 2, 1) # RefVariance(bars, 2, 2)
  /\ out.v[2].date = 2

\* a call for SMA or EMA whose request is fine and whose fetched closes are valid
SMAorEMAOnValidCloses ==
  /\ call.fn = "Indicator"
  /\ getApiKey(apiKey, storedKey) # ""
  /\ call.req \in {[FineRequest EXCEPT !.indicator = ind] : ind \in {"SMA", "EMA"}}
  /\ Len(bars) >= 1
  /\ \A i \in 1..Len(bars) : IsFinite(bars[i].c)

\* C23: through getTechnicalIndicator, for SMA and EMA on n valid closes, every
\* period with 1 <= period <= n yields an indicator table, and only period <= 0 or
\* period > n is rejected as an invalid period.
C23_PeriodMarginZero ==
  SMAorEMAOnValidCloses =>
    /\ IsOk(out) <=> (1 <= call.period /\ call.period <= Len(bars))
    /\ (out = Err(InvalidPeriodCell(call.period, Len(bars))))
         <=> (call.period <= 0 \/ call.period > Len(bars))

\* what the code does: the margin is 1, period = n is rejected as well
C23_PeriodMarginOne ==
  SMAorEMAOnValidCloses =>
    /\ IsOk(out) <=> (1 <= call.period /\ call.period <= Len(bars) - 1)
    /\ (out = Err(InvalidPeriodCell(call.period, Len(bars))))
         <=> (call.period <= 0 \/ call.period > Len(bars) - 1)

\* the rows of an ATR table that the smoothing loop pushed
SmoothedRows == {k \in 1..Len(out.v) : ~out.v[k].raw}

\* C24: in getATR the true range of bar i >= 1 is max(high - low, |high - c|,
\* |low - c|) with c the close of bar i-1, and every ATR value after the initial
\* one is (previous ATR * (period - 1) + true range of the row's bar) / period; the
\* smoothed rows are those of consecutive bars, from the first bar whose true range
\* is not in the initial value to the last bar, so that each true range enters once
\* and in bar order.
C24_WilderSmoothing ==
  (call.fn = "ATR" /\ IsOk(out) /\ call.period >= 1) =>
    /\ \A k \in SmoothedRows :
         LET row == out.v[k]
             prev == IF k = 1 THEN locals.seed ELSE out.v[k - 1].atr
         IN  /\ row.date >= 1 /\ row.date <= Len(bars) - 1
             /\ row.tr = RefTrueRange(bars, row.date)
             /\ row.atr = Div(Add(Mul(prev, R(call.period - 1)), row.tr), R(call.period))
             /\ k > 1 => row.date = out.v[k - 1].date + 1
    /\ \A k \in 1..Len(out.v) : out.v[k].raw => (k = 1 /\ out.v[k].atr = locals.seed)
    /\ SmoothedRows # {} =>
         /\ out.v[Len(out.v)].date = Len(bars) - 1
         /\ out.v[1].date = call.period
         /\ out.v[1].raw <=> call.rev = 2

\* two smoothed rows with different true ranges, for a period of 2
C24_Witness ==
  /\ call.fn = "ATR" /\ IsOk(out) /\ call.period = 2
  /\ \E k \in SmoothedRows :
       /\ k + 1 \in SmoothedRows
       /\ out.v[k].tr # out.v[k + 1].tr
       /\ out.v[k].atr # out.v[k + 1].atr
       /\ RefTrueRange(bars, out.v[k].date) # Sub(bars[out.v[k].date + 1].h, bars[out.v[k].date + 1].l)

\* the fetched series is too short for one value of the requested period
TooFewBars ==
  \/ call.fn = "Bollinger" /\ Len(bars) < call.period
  \/ call.fn = "ATR" /\ Len(bars) < call.period + 1

\* C25: getBollingerBands and getATR never return a header-only table: with fewer
\* than period bars (Bollinger) or period + 1 bars (ATR) the result is one cell with
\* a message, and every table that starts with the header row has a data row.
C25_NoHeaderOnlyTable ==
  (call.fn \in {"Bollinger", "ATR"}) =>
    /\ TooFewBars => ~IsOk(out)
    /\ IsOk(out) => Len(out.v) >= 1

\* the two functions in which the statement holds: getBollingerBands of revision 1
\* and getATR of revision 2
C25_NoHeaderOnlyElsewhere ==
  (\/ call.fn = "Bollinger" /\ call.rev = 1
   \/ call.fn = "ATR" /\ call.rev = 2) =>
    /\ TooFewBars => ~IsOk(out)
    /\ IsOk(out) => Len(out.v) >= 1

-----------------------------------------------------------------------------
(* getBatchQuotes and getPreviousClose: one call and its requests in flight. *)
(* A request is named by the 1-based place of its ticker in the list.  The   *)
(* answer of the server for a ticker is "data" (results with a quote),       *)
(* "nodata" (no results) or "bad" (results whose first entry lacks a number   *)
(* the row formats, so that toFixed throws).  locals holds the locals of the *)
(* call (pc, i, results, arrivals, timer), the requests still outstanding     *)
(* (pending), those that failed (failed), whether a response overtook one of *)
(* a ticker placed before it (reordered) and, for each batch issued, its     *)
(* first index, the requests outstanding and the delay waited when it was    *)
(* issued (log).                                                             *)

\* for (let i = 0; i < tickers.length; i += 5), tickers.slice(i, i + 5)
BatchWidth == 5

\* setTimeout(resolve, 200)
DelayMs == 200

MaxTickers == 6

BatchFns == {"BatchQuotes", "PreviousClose"}

Answers == {"data", "nodata", "bad"}

\* error.message of a rejected fetch and of a rejected response.json()
FailureMessages == {"Failed to fetch", "Unexpected token"}

NoBatchCall == [fn |-> "none", tickers |-> <<>>, answers |-> <<>>]

BatchLocals ==
  [pc |-> "idle", i |-> 0, results |-> <<>>, arrivals |-> <<>>, timer |-> 0,
   pending |-> {}, failed |-> {}, reordered |-> FALSE, log |-> <<>>]

\* the places of the tickers of tickers.slice(i, i + 5)
BatchPlaces(tickers, i) == (i + 1)..Min(i + BatchWidth, Len(tickers))

\* batch.map(ticker => fetch(...).then(response => response.json()))
IssueBatch(st, tickers, i) ==
  [st EXCEPT !.pc = "await", !.i = i, !.arrivals = <<>>, !.timer = 0,
             !.pending = st.pending \cup BatchPlaces(tickers, i),
             !.log = Append(st.log, [first |-> i,
                                     outstanding |-> Cardinality(st.pending),
                                     waited |-> st.timer])]

\* what is left of locals when the call has returned
Returned(st) ==
  [BatchLocals EXCEPT !.pc = "done", !.pending = st.pending, !.failed = st.failed,
                      !.reordered = st.reordered, !.log = st.log]

\* mutant of PromiseAll: the responses in the order of their arrival
PromiseAllArrivalOrder(i, arrivals) == [k \in 1..Len(arrivals) |-> arrivals[k].answer]

\* await Promise.all(promises): the responses in the order of the promises
PromiseAll(i, arrivals) ==
  [k \in 1..Len(arrivals) |->
     (CHOOSE a \in {arrivals[x] : x \in 1..Len(arrivals)} : a.place = i + k).answer]

\* the row pushed for batch[index]: the quote, or "No data"
BatchRow(ticker, answer) == [ticker |-> ticker, data |-> answer = "data"]

\* the rows responses.forEach pushes before it ends or throws
ForEachRows(tickers, i, responses) ==
  LET stop == IF \E k \in 1..Len(responses) : responses[k] = "bad"
              THEN (CHOOSE k \in 1..Len(responses) :
                      /\ responses[k] = "bad"
                      /\ \A x \in 1..(k - 1) : responses[x] # "bad") - 1
              ELSE Len(responses)
  IN  [k \in 1..stop |-> BatchRow(tickers[i + k], responses[k])]

\* mutant of BatchCatch: the rows pushed so far are returned
BatchCatchPartial(results, m) == Ok(results)

\* catch (error) { return [[`Error: ${error.message}`]] }
BatchCatch(results, m) == Err("Error: " \o m)

\* mutant of NeedsDelay: a delay after every batch
NeedsDelayAlways(i, n) == TRUE

\* if (i + 5 < tickers.length)
NeedsDelay(i, n) == i + BatchWidth < n

\* the test "i < tickers.length" of the for loop and what follows it: the next
\* batch is issued or results is returned; s is the pair of locals and out
LoopTest(s, tickers, i) ==
  IF i < Len(tickers)
  THEN [l |-> IssueBatch(s.l, tickers, i), o |-> s.o]
  ELSE [l |-> Returned(s.l), o |-> Ok(s.l.results)]

\* the loop body after Promise.all has resolved
AfterAll(s, tickers) ==
  LET responses == PromiseAll(s.l.i, s.l.arrivals)
      rows == s.l.results \o ForEachRows(tickers, s.l.i, responses)
      pushed == [s.l EXCEPT !.results = rows]
  IN  IF \E k \in 1..Len(responses) : responses[k] = "bad"
      THEN [l |-> Returned(s.l), o |-> BatchCatch(rows, "TypeError")]
      ELSE IF NeedsDelay(s.l.i, Len(tickers))
      THEN [l |-> [pushed EXCEPT !.pc = "delay", !.timer = DelayMs], o |-> s.o]
      ELSE LoopTest([l |-> pushed, o |-> s.o], tickers, s.l.i + BatchWidth)

\* the call up to its first await
StartBatch(fn, key, s, tickers) ==
  IF key = ""
  THEN [l |-> Returned(s.l),
        o |-> Err("API key not set. Please set your Polygon.io API key.")]
  ELSE IF fn = "PreviousClose" /\ Len(tickers) = 0
  THEN [l |-> Returned(s.l),
        o |-> Err("Invalid tickers array. Expected format: [AAPL, MSFT, ...]")]
  ELSE LoopTest(s, tickers, 0)

\* the ticker lists tried: n tickers with different names
TickerCounts == (0..MaxTickers) \cup {2 * BatchWidth + 1}

TickerList(n) == [k \in 1..n |-> "T" \o ToString(k)]

\* the answers tried: data for every ticker but at most one, the first or the
\* last of the list or the first of the second batch
AnswerPatterns(n) ==
  {[k \in 1..n |-> "data"]}
    \cup {[k \in 1..n |-> IF k = p THEN a ELSE "data"] :
            p \in {1, BatchWidth + 1, n} \cap (1..n), a \in Answers \ {"data"}}

InitBatch ==
  /\ prices = <<>>
  /\ bars = <<>>
  /\ call = NoBatchCall
  /\ out = Ok(<<>>)
  /\ locals = BatchLocals
  /\ apiKey \in {"", "key"}
  /\ storedKey = ""

CallBatch ==
  /\ locals.pc = "idle"
  /\ \E fn \in BatchFns, n \in TickerCounts :
       \E answers \in AnswerPatterns(n) :
         LET r == StartBatch(fn, getApiKey(apiKey, storedKey),
                             [l |-> locals, o |-> out], TickerList(n))
         IN  /\ call' = [fn |-> fn, tickers |-> TickerList(n), answers |-> answers]
             /\ locals' = r.l
             /\ out' = r.o
  /\ UNCHANGED <<prices, bars, apiKey, storedKey>>

\* a response is decoded while the call awaits Promise.all
ResponseArrives ==
  /\ locals.pc = "await"
  /\ \E j \in locals.pending :
       LET st == [locals EXCEPT
                    !.pending = locals.pending \ {j},
                    !.arrivals = Append(locals.arrivals,
                                        [place |-> j, answer |-> call.answers[j]]),
                    !.reordered = locals.reordered
                                    \/ \E x \in locals.pending : x < j]
           r == IF st.pending = {}
                THEN AfterAll([l |-> st, o |-> out], call.tickers)
                ELSE [l |-> st, o |-> out]
       IN  /\ locals' = r.l
           /\ out' = r.o
  /\ UNCHANGED <<prices, bars, call, apiKey, storedKey>>

\* a fetch or a response.json() rejects while the call awaits Promise.all
RequestFails ==
  /\ locals.pc = "await"
  /\ \E j \in locals.pending, m \in FailureMessages :
       /\ locals' = Returned([locals EXCEPT !.pending = locals.pending \ {j},
                                            !.failed = locals.failed \cup {j}])
       /\ out' = BatchCatch(locals.results, m)
  /\ UNCHANGED <<prices, bars, call, apiKey, storedKey>>

\* a request left outstanding by a call that has returned is settled
LateResponse ==
  /\ locals.pc = "done"
  /\ \E j \in locals.pending, ok \in BOOLEAN :
       locals' = [locals EXCEPT !.pending = locals.pending \ {j},
                                !.failed = IF ok THEN locals.failed
                                           ELSE locals.failed \cup {j}]
  /\ UNCHANGED <<prices, bars, call, out, apiKey, storedKey>>

\* the timer of the delay between two batches fires
TimerFires ==
  /\ locals.pc = "delay"
  /\ LET r == LoopTest([l |-> locals, o |-> out], call.tickers, locals.i + BatchWidth)
     IN  /\ locals' = r.l
         /\ out' = r.o
  /\ UNCHANGED <<prices, bars, call, apiKey, storedKey>>

NextBatch == CallBatch \/ ResponseArrives \/ RequestFails \/ LateResponse \/ TimerFires

SpecBatch == InitBatch /\ [][NextBatch]_vars

\* C26: getBatchQuotes and getPreviousClose fetch five at a time: at most 5
\* requests are outstanding at any moment; a batch after the first is issued when
\* no request is outstanding and the 200 ms delay has been waited, and it starts 5
\* tickers after the batch before it; no delay is taken after the last batch.
C26_BatchesOfFive ==
  (call.fn \in BatchFns) =>
    /\ Cardinality(locals.pending) <= BatchWidth
    /\ \A k \in 1..Len(locals.log) :
         /\ locals.log[k].first = (k - 1) * 5
         /\ locals.log[k].outstanding = 0
         /\ locals.log[k].waited = IF k = 1 THEN 0 ELSE 200
    /\ locals.pc = "delay" =>
         /\ locals.pending = {}
         /\ locals.i + 5 < Len(call.tickers)
    /\ locals.pc = "await" =>
         locals.pending \subseteq (locals.i + 1)..(locals.i + 5)

\* the third batch, of one request, is outstanding after two full batches
C26_Witness ==
  /\ call.fn \in BatchFns
  /\ Len(locals.log) = 3
  /\ locals.pc = "await"
  /\ locals.pending = {11}
  /\ Len(locals.results) = 10

\* a call that has returned while a key was set and no request failed
ReturnedUnfailed ==
  /\ call.fn \in BatchFns
  /\ locals.pc = "done" /\ locals.pending = {} /\ locals.failed = {}
  /\ getApiKey(apiKey, storedKey) # ""

\* the table has one row per input ticker, in the order of the list, with "No
\* data" for a ticker without data
OneRowPerTicker ==
  /\ IsOk(out)
  /\ Len(out.v) = Len(call.tickers)
  /\ \A k \in 1..Len(out.v) :
       /\ out.v[k].ticker = call.tickers[k]
       /\ out.v[k].data <=> call.answers[k] = "data"

C30_AllOrNothing ==
  (call.fn \in BatchFns /\ locals.failed # {}) =>
    /\ locals.pc = "done"
    /\ ~IsOk(out) /\ out.v = <<>>
    /\ out.err \in {"Error: " \o m : m \in FailureMessages}
    /\ \A j \in locals.failed :
         /\ j > locals.log[Len(locals.log)].first
         /\ j <= locals.log[Len(locals.log)].first + 5

\* a request of the second of three batches failed after the first batch had been
\* put into results
C30_Witness ==
  /\ call.fn = "BatchQuotes"
  /\ Len(call.tickers) = 11
  /\ Len(locals.log) = 2
  /\ locals.failed = {7}
  /\ locals.pending # {}

\* bars b with the close of the last bar replaced by w
WithLastClose(b, w) == [b EXCEPT ![Len(b)] = [@ EXCEPT !.c = R(w)]]

\* C28: the last day-over-day change is used by no RSI value: a series that
\* differs from the fetched one only in its last price gives the same output of
\* calculateRSI, for every period, and the same RSI table; the date of the last bar
\* is in no row of an RSI table, whose last row has the date of the bar before it.
C28_RSILastChangeUnused ==
  (call.fn = "Indicator" /\ IsOk(out) /\ ToUpperCase(call.req.indicator) = "RSI") =>
    /\ \A w \in 1..(MaxPrice + 1) :
         /\ \A q \in 1..Len(bars) :
              calculateRSI(Closes(WithLastClose(bars, w)), q)
                = calculateRSI(Closes(bars), q)
         /\ getTechnicalIndicator(call.rev, getApiKey(apiKey, storedKey), call.req,
                                  WithLastClose(bars, w), call.period) = out
    /\ \A k \in 1..Len(out.v) : out.v[k].date # bars[Len(bars)].t
    /\ Len(out.v) >= 1 => out.v[Len(out.v)].date = bars[Len(bars) - 1].t

\* an RSI table of two rows for a series whose last price moved
C28_Witness ==
  /\ call.fn = "Indicator" /\ IsOk(out) /\ ToUpperCase(call.req.indicator) = "RSI"
  /\ Len(out.v) >= 2
  /\ bars[Len(bars)].c # bars[Len(bars) - 1].c
  /\ out.v[1].cells # out.v[Len(out.v)].cells

-----------------------------------------------------------------------------
(* The API key over sequences of operations: setPolygonApiKey, the task      *)
(* pane's setApiKey and calls of a data function (getTechnicalIndicator).    *)
(* call records the last operation: its key argument, and for a data call    *)
(* the key getApiKey() gave it and whether it called fetch; out is what the  *)
(* operation returned (for setPolygonApiKey, Ok with its message in v).      *)

NoKeyCall ==
  [fn |-> "none", key |-> "", usedKey |-> "", fetched |-> FALSE,
   req |-> FineRequest, period |-> 0]

\* whether getTechnicalIndicator gets as far as "await fetch(url)"
Fetches(key, req) ==
  /\ key # "" /\ req.ticker # "" /\ req.indicator # ""
  /\ DateOk(req.from) /\ DateOk(req.to)

\* setPolygonApiKey(key) with what it returns; storageThrows: whether
\* localStorage.setItem throws, which happens after the assignment to apiKey
SetPolygonApiKeyReturns(key, storageThrows) ==
  /\ call' = [NoKeyCall EXCEPT !.fn = "setPolygonApiKey", !.key = key]
  /\ IF key = ""
     THEN /\ out' = Ok(<<"No API key provided.">>)
          /\ UNCHANGED <<apiKey, storedKey>>
     ELSE IF storageThrows
     THEN /\ out' = Err("Error setting API key: QuotaExceededError")
          /\ apiKey' = key
          /\ UNCHANGED storedKey
     ELSE /\ out' = Ok(<<"API key set successfully.">>)
          /\ apiKey' = key
          /\ storedKey' = key
  /\ UNCHANGED <<prices, bars, locals>>

InitKey ==
  /\ bars = CloseBars(<<R(1), R(2), R(3)>>)
  /\ prices = Closes(bars)
  /\ call = NoKeyCall
  /\ out = Ok(<<>>)
  /\ locals = NoLocals
  /\ apiKey = ""
  /\ storedKey \in Keys

SetKeyStored == \E key \in Keys : SetPolygonApiKeyReturns(key, FALSE)

SetKeyStorageFails == \E key \in Keys : SetPolygonApiKeyReturns(key, TRUE)

\* the task pane's setApiKey: the input, empty or not, is stored
TaskpaneSetApiKey ==
  /\ \E input \in Keys :
       /\ storedKey' = input
       /\ call' = [NoKeyCall EXCEPT !.fn = "setApiKey", !.key = input]
  /\ out' = Ok(<<"API key saved successfully.">>)
  /\ UNCHANGED <<prices, bars, locals, apiKey>>

CallIndicatorKey ==
  /\ \E rev \in Revisions, period \in 1..2, req \in Requests :
       /\ call' = [NoKeyCall EXCEPT !.fn = "Indicator",
                                    !.req = req, !.period = period,
                                    !.usedKey = getApiKey(apiKey, storedKey),
                                    !.fetched = Fetches(getApiKey(apiKey, storedKey), req)]
       /\ out' = getTechnicalIndicator(rev, getApiKey(apiKey, storedKey), req, bars, period)
  /\ UNCHANGED <<prices, bars, locals, apiKey, storedKey>>

NextKey == SetKeyStored \/ SetKeyStorageFails \/ TaskpaneSetApiKey \/ CallIndicatorKey

SpecKey == InitKey /\ [][NextKey]_vars

\* C29: setPolygonApiKey with an empty key changes neither key; the in-memory key
\* changes only in a successful setPolygonApiKey(k), to k, so that it stays k while
\* the task pane stores other keys and until the next successful setPolygonApiKey;
\* a data call uses the in-memory key if there is one and the stored key otherwise,
\* and with neither it returns "API key not set" without a request.
C29_KeyPrecedence ==
  [][/\ (call'.fn = "setPolygonApiKey" /\ call'.key = "") =>
          (apiKey' = apiKey /\ storedKey' = storedKey)
     /\ (apiKey' # apiKey) =>
          /\ call'.fn = "setPolygonApiKey"
          /\ out' = Ok(<<"API key set successfully.">>)
          /\ apiKey' = call'.key /\ storedKey' = call'.key
     /\ (call'.fn = "Indicator") =>
          /\ call'.usedKey = IF apiKey # "" THEN apiKey ELSE storedKey
          /\ (apiKey = "" /\ storedKey = "") =>
               /\ out' = Err("API key not set. Please set your Polygon.io API key.")
               /\ ~call'.fetched]_vars

\* what holds: the in-memory key is the last non-empty key given to
\* setPolygonApiKey, whether or not that call could store it
C29_KeyPrecedenceOfLastGiven ==
  [][/\ (call'.fn = "setPolygonApiKey" /\ call'.key = "") =>
          (apiKey' = apiKey /\ storedKey' = storedKey)
     /\ (apiKey' # apiKey) =>
          /\ call'.fn = "setPolygonApiKey"
          /\ apiKey' = call'.key
          /\ IsOk(out') => storedKey' = call'.key
     /\ (call'.fn = "Indicator") =>
          /\ call'.usedKey = IF apiKey # "" THEN apiKey ELSE storedKey
          /\ (apiKey = "" /\ storedKey = "") =>
               /\ out' = Err("API key not set. Please set your Polygon.io API key.")
               /\ ~call'.fetched]_vars

====
